---------------------------- MODULE Spec2Model ----------------------------
(***************************************************************************)
(* Model of src/app.py: the star / moon rating badge service.              *)
(*                                                                         *)
(* Numbers.  A rating is a Python float.  It is represented here by a      *)
(* record [cls, v]: cls is "fin", "nan", "inf" or "ninf" and, for a finite *)
(* value, v is the rating measured in viewBox units, i.e. in hundredths of *)
(* a unit (one star or moon cell is 100 viewBox units wide, so rating 3.5  *)
(* is v = 350).  Arithmetic on finite values is exact; binary rounding of  *)
(* floats below the 1/100 grid is not represented (rating - i is exact in  *)
(* binary floating point wherever its value lies in [0,1], by Sterbenz's   *)
(* lemma, so the bucket comparisons are those of the exact values).        *)
(*                                                                         *)
(* Text.  Path segments and query values are sequences of one-character    *)
(* strings; float() and int() are modelled as parsers over them.           *)
(***************************************************************************)
EXTENDS Integers, Sequences, FiniteSets, TLC

VARIABLES
    request,    \* the request being served: route, rating path segment, query values
    pc,         \* "recv" before the handler has run, "done" after it
    response,   \* the response the handler returned
    invoked,    \* the renderer the handler called, "none" if it called none
    phases      \* the values get_moon_phase_type returned, in call order

vars == <<request, pc, response, invoked, phases>>

(***************************************************************************)
(* Bounds of the explored input space.                                     *)
(***************************************************************************)
MaxUnits == 3      \* largest explicit value of the "max" query parameter
NegUnits == 1      \* explicit "max" values range over -NegUnits..MaxUnits
Margin == 30       \* ratings range from -Margin below 0 to Margin above the top

(***************************************************************************)
(* Program constants.                                                      *)
(***************************************************************************)
CELL == 100            \* width and height of one cell in viewBox units
DEFAULT_SIZE == 24
DEFAULT_MAX == 5
LEGACY_MOONS == 5
MOON_RADIUS == 40
T_NEW == 10            \* percentage <= 0.1
T_CRESCENT == 30       \* percentage <= 0.3
T_HALF == 60           \* percentage <= 0.6
T_GIBBOUS == 90        \* percentage <= 0.9
PCT_CRESCENT == 25     \* fill_pct 0.25 (* 100)
PCT_HALF == 50
PCT_GIBBOUS == 75
PCT_FULL == 100

(***************************************************************************)
(* Python floats.                                                          *)
(***************************************************************************)
Fin(v) == [cls |-> "fin", v |-> v]
NaN == [cls |-> "nan", v |-> 0]
PosInf == [cls |-> "inf", v |-> 0]
NegInf == [cls |-> "ninf", v |-> 0]

\* a < b on floats; every comparison with NaN is false
FLt(a, b) ==
    IF a.cls = "nan" \/ b.cls = "nan" THEN FALSE
    ELSE IF a.cls = "ninf" THEN b.cls # "ninf"
    ELSE IF a.cls = "inf" THEN FALSE
    ELSE IF b.cls = "inf" THEN TRUE
    ELSE IF b.cls = "ninf" THEN FALSE
    ELSE a.v < b.v

\* a <= b on floats
FLe(a, b) ==
    IF a.cls = "nan" \/ b.cls = "nan" THEN FALSE
    ELSE FLt(a, b) \/ (a.cls = b.cls /\ a.v = b.v)

\* Python's min(a, b): the first argument unless the second is smaller
PyMin(a, b) == IF FLt(b, a) THEN b ELSE a

\* Python's max(a, b): the first argument unless the second is larger
PyMax(a, b) == IF FLt(a, b) THEN b ELSE a

\* rating - i for an int i (given in viewBox units)
FSub(a, n) == IF a.cls = "fin" THEN Fin(a.v - n) ELSE a

\* int(x) of a finite float: truncation toward zero, result in whole units
PyInt(x) == IF x.v >= 0 THEN x.v \div CELL ELSE -((-x.v) \div CELL)

(***************************************************************************)
(* Text: float(str) and int(str), as used by the route handlers.           *)
(***************************************************************************)
DigitChars == <<"0", "1", "2", "3", "4", "5", "6", "7", "8", "9">>

IsDigit(c) == \E d \in 1..10 : DigitChars[d] = c

DigitVal(c) == (CHOOSE d \in 1..10 : DigitChars[d] = c) - 1

AllDigits(s) == \A k \in 1..Len(s) : IsDigit(s[k])

RECURSIVE DigitsVal(_)
DigitsVal(s) ==
    IF Len(s) = 0 THEN 0
    ELSE 10 * DigitsVal(SubSeq(s, 1, Len(s) - 1)) + DigitVal(s[Len(s)])

\* the text after an optional leading sign
Unsigned(s) == IF Len(s) > 0 /\ s[1] \in {"-", "+"} THEN Tail(s) ELSE s

Negative(s) == Len(s) > 0 /\ s[1] = "-"

DotAt(s) == IF \E k \in 1..Len(s) : s[k] = "."
            THEN CHOOSE k \in 1..Len(s) : s[k] = "." /\ \A j \in 1..(k - 1) : s[j] # "."
            ELSE 0

\* value, in hundredths, of an unsigned decimal literal that has at most two
\* fraction digits
DecimalVal(u) ==
    LET d == DotAt(u)
        ip == IF d = 0 THEN u ELSE SubSeq(u, 1, d - 1)
        fp == IF d = 0 THEN <<>> ELSE SubSeq(u, d + 1, Len(u))
    IN  DigitsVal(ip) * CELL
        + (IF Len(fp) = 0 THEN 0
           ELSE IF Len(fp) = 1 THEN 10 * DigitsVal(fp)
           ELSE DigitsVal(SubSeq(fp, 1, 2)))

IsDecimal(u) ==
    LET d == DotAt(u)
        ip == IF d = 0 THEN u ELSE SubSeq(u, 1, d - 1)
        fp == IF d = 0 THEN <<>> ELSE SubSeq(u, d + 1, Len(u))
    IN  /\ AllDigits(ip)
        /\ AllDigits(fp)
        /\ Len(ip) + Len(fp) > 0

\* float(s): [ok |-> FALSE] stands for ValueError
ParseFloat(s) ==
    LET u == Unsigned(s) IN
    IF u = <<"n", "a", "n">> THEN [ok |-> TRUE, val |-> NaN]
    ELSE IF u = <<"i", "n", "f">> THEN [ok |-> TRUE, val |-> IF Negative(s) THEN NegInf ELSE PosInf]
    ELSE IF IsDecimal(u)
         THEN [ok |-> TRUE, val |-> Fin(IF Negative(s) THEN -DecimalVal(u) ELSE DecimalVal(u))]
    ELSE [ok |-> FALSE, val |-> NaN]

\* int(s): [ok |-> FALSE] stands for ValueError
ParseInt(s) ==
    LET u == Unsigned(s) IN
    IF Len(u) > 0 /\ AllDigits(u)
    THEN [ok |-> TRUE, val |-> IF Negative(s) THEN -DigitsVal(u) ELSE DigitsVal(u)]
    ELSE [ok |-> FALSE, val |-> 0]

\* request.args.get(key, default=dflt, type=int)
ArgsGetInt(arg, dflt) ==
    IF ~arg.present THEN dflt
    ELSE IF ParseInt(arg.text).ok THEN ParseInt(arg.text).val
    ELSE dflt

(***************************************************************************)
(* SVG documents.  A document is its canvas attributes and the sequence of *)
(* elements in emission order; every element is a record of one shape.     *)
(***************************************************************************)
NoClip == <<>>

\* <path transform="translate(tx,0)" fill=... [clip-path="url(#clip)"] d=star_path/>
Path(tx, fill, clip) ==
    [tag |-> "path", id |-> NoClip, clip |-> clip, fill |-> fill, tx |-> tx,
     cx |-> 0, cy |-> 0, r |-> 0, x |-> 0, w |-> 0]

\* <clipPath id=...><rect x=... y="0" width=... height="100"/></clipPath>
ClipPath(id, x, w) ==
    [tag |-> "clipPath", id |-> id, clip |-> NoClip, fill |-> "", tx |-> 0,
     cx |-> 0, cy |-> 0, r |-> 0, x |-> x, w |-> w]

\* <circle cx=... cy="50" r="40" fill=... [clip-path=...] [transform="translate(tx, 0)"]/>
Circle(cx, fill, clip, tx) ==
    [tag |-> "circle", id |-> NoClip, clip |-> clip, fill |-> fill, tx |-> tx,
     cx |-> cx, cy |-> CELL \div 2, r |-> MOON_RADIUS, x |-> 0, w |-> 0]

\* <svg viewBox="0 0 {max * 100} 100" width="{size * max}" height="{size}">
Svg(size, max_units, elems) ==
    [viewBoxW |-> max_units * CELL, viewBoxH |-> CELL,
     width |-> size * max_units, height |-> size, elems |-> elems]

EmptySvg == Svg(0, 0, <<>>)

RECURSIVE Flatten(_)
Flatten(ss) == IF Len(ss) = 0 THEN <<>> ELSE Head(ss) \o Flatten(Tail(ss))

\* range(n): the indices 0, 1, ..., n-1 in order; empty when n <= 0
RangeAbs(n) == [k \in 1..(IF n >= 0 THEN n ELSE -n) |-> k - 1]
Range(n) == [k \in 1..n |-> k - 1]

\* rating = max(0, min(max_units, rating))
ClampRatingSwapped(rating, max_units) ==
    PyMax(PyMin(rating, Fin(max_units * CELL)), Fin(0))
ClampRating(rating, max_units) ==
    PyMax(Fin(0), PyMin(Fin(max_units * CELL), rating))

(***************************************************************************)
(* get_star_rating                                                         *)
(***************************************************************************)
\* empty_stars = max_stars - full_stars - (1 if partial > 0 else 0)
EmptyStarsNoPartial(max_stars, full_stars, partial) == max_stars - full_stars
EmptyStars(max_stars, full_stars, partial) ==
    max_stars - full_stars - (IF partial > 0 THEN 1 ELSE 0)

\* width="{partial * 100}" of the partial star's clip rectangle
StarClipWidthFixed(partial) == CELL \div 2
StarClipWidth(partial) == partial

\* [raised |-> TRUE] stands for the exception int() raises on a non-finite float
get_star_rating(rating0, size, max_stars) ==
    LET rating == ClampRating(rating0, max_stars) IN
    IF rating.cls # "fin" THEN [raised |-> TRUE, svg |-> EmptySvg]
    ELSE
    LET full_stars == PyInt(rating)
        partial == rating.v - full_stars * CELL
        empty_stars == EmptyStars(max_stars, full_stars, partial)
        fulls == [k \in 1..Len(Range(full_stars)) |->
                    Path(Range(full_stars)[k] * CELL, "gold", NoClip)]
        part == IF partial > 0
                THEN LET x == full_stars * CELL IN
                     << ClipPath(<<"partial">>, 0, StarClipWidth(partial)),
                        Path(x, "#ddd", NoClip),
                        Path(x, "gold", <<"partial">>) >>
                ELSE <<>>
        empties == [k \in 1..Len(Range(empty_stars)) |->
                      Path((full_stars + (IF partial > 0 THEN 1 ELSE 0)
                            + Range(empty_stars)[k]) * CELL, "#ddd", NoClip)]
    IN  [raised |-> FALSE, svg |-> Svg(size, max_stars, fulls \o part \o empties)]

(***************************************************************************)
(* Moon phases                                                             *)
(***************************************************************************)
get_moon_phase_type_strict(percentage) ==
    IF FLt(percentage, Fin(T_NEW)) THEN "new"
    ELSE IF FLt(percentage, Fin(T_CRESCENT)) THEN "crescent"
    ELSE IF FLt(percentage, Fin(T_HALF)) THEN "half"
    ELSE IF FLt(percentage, Fin(T_GIBBOUS)) THEN "gibbous"
    ELSE "full"
get_moon_phase_type(percentage) ==
    IF FLe(percentage, Fin(T_NEW)) THEN "new"
    ELSE IF FLe(percentage, Fin(T_CRESCENT)) THEN "crescent"
    ELSE IF FLe(percentage, Fin(T_HALF)) THEN "half"
    ELSE IF FLe(percentage, Fin(T_GIBBOUS)) THEN "gibbous"
    ELSE "full"

\* moon_value = max(0, min(1, rating - i))
MoonValueNoIndex(rating, i) == PyMax(Fin(0), PyMin(Fin(CELL), rating))
MoonValue(rating, i) == PyMax(Fin(0), PyMin(Fin(CELL), FSub(rating, i * CELL)))

\* clip_width of get_moon_rating_svg
ClipWidthV1(phase) ==
    IF phase = "new" THEN 0
    ELSE IF phase = "crescent" THEN PCT_CRESCENT
    ELSE IF phase = "half" THEN PCT_HALF
    ELSE IF phase = "gibbous" THEN PCT_GIBBOUS
    ELSE PCT_FULL

\* fill_pct * 100 of get_moon_rating_svg_v2
FillPctGibbousFull(phase) ==
    IF phase = "new" THEN 0
    ELSE IF phase = "crescent" THEN PCT_CRESCENT
    ELSE IF phase = "half" THEN PCT_HALF
    ELSE PCT_FULL
FillPct(phase) ==
    IF phase = "new" THEN 0
    ELSE IF phase = "crescent" THEN PCT_CRESCENT
    ELSE IF phase = "half" THEN PCT_HALF
    ELSE IF phase = "gibbous" THEN PCT_GIBBOUS
    ELSE PCT_FULL

\* clip_x = i * 100
ClipXOrigin(i) == 0
ClipX(i) == i * CELL

(***************************************************************************)
(* get_moon_rating_svg (first version, not routed)                         *)
(***************************************************************************)
get_moon_rating_svg(rating0, size, max_moons) ==
    LET rating == ClampRating(rating0, max_moons)
        fill_color == "#F4D03F"
        empty_color == "#ddd"
        phase(i) == get_moon_phase_type(MoonValue(rating, i))
        defs == [k \in 1..Len(Range(max_moons)) |->
                   LET i == Range(max_moons)[k] IN
                   ClipPath(<<"moon-clip", i>>, 0, ClipWidthV1(phase(i)))]
        moon(i) ==
            LET x == i * CELL IN
            << Circle(x + 50, empty_color, NoClip, 0) >>
            \o (IF phase(i) # "new"
                THEN << Circle(x + 50, fill_color, <<"moon-clip", i>>, x) >>
                ELSE <<>>)
        moons == [k \in 1..Len(Range(max_moons)) |-> moon(Range(max_moons)[k])]
        calls == [k \in 1..Len(Range(max_moons)) |-> phase(Range(max_moons)[k])]
    IN  [raised |-> FALSE, svg |-> Svg(size, max_moons, defs \o Flatten(moons)),
         phases |-> calls \o calls]

(***************************************************************************)
(* get_moon_rating_svg_v2 (served by /moon/<rating>/)                      *)
(***************************************************************************)
get_moon_rating_svg_v2(rating0, size, max_moons) ==
    LET rating == ClampRating(rating0, max_moons)
        fill_color == "#F4D03F"
        empty_color == "#ddd"
        moon(i) ==
            LET x == i * CELL + 50
                phase == get_moon_phase_type(MoonValue(rating, i))
                fill_pct == FillPct(phase)
            IN  << Circle(x, empty_color, NoClip, 0) >>
                \o (IF fill_pct > 0
                    THEN << ClipPath(<<"clip", i>>, ClipX(i), fill_pct),
                            Circle(x, fill_color, <<"clip", i>>, 0) >>
                    ELSE <<>>)
        moons == [k \in 1..Len(Range(max_moons)) |-> moon(Range(max_moons)[k])]
        calls == [k \in 1..Len(Range(max_moons)) |->
                    get_moon_phase_type(MoonValue(rating, Range(max_moons)[k]))]
    IN  [raised |-> FALSE, svg |-> Svg(size, max_moons, Flatten(moons)),
         phases |-> calls]

(***************************************************************************)
(* Legacy emoji renderer                                                   *)
(***************************************************************************)
GLYPH_NEW == "U+1F311"
GLYPH_CRESCENT == "U+1F318"
GLYPH_HALF == "U+1F317"
GLYPH_GIBBOUS == "U+1F316"
GLYPH_FULL == "U+1F315"

get_moon_phase_shifted(percentage) ==
    IF FLe(percentage, Fin(T_NEW)) THEN GLYPH_NEW
    ELSE IF FLe(percentage, Fin(T_CRESCENT)) THEN GLYPH_CRESCENT
    ELSE IF FLe(percentage, Fin(T_HALF)) THEN GLYPH_HALF
    ELSE IF FLe(percentage, Fin(CELL)) THEN GLYPH_GIBBOUS
    ELSE GLYPH_FULL
get_moon_phase(percentage) ==
    IF FLe(percentage, Fin(T_NEW)) THEN GLYPH_NEW
    ELSE IF FLe(percentage, Fin(T_CRESCENT)) THEN GLYPH_CRESCENT
    ELSE IF FLe(percentage, Fin(T_HALF)) THEN GLYPH_HALF
    ELSE IF FLe(percentage, Fin(T_GIBBOUS)) THEN GLYPH_GIBBOUS
    ELSE GLYPH_FULL

get_moon_rating(rating0) ==
    LET rating == PyMax(PyMin(Fin(LEGACY_MOONS * CELL), rating0), Fin(0))
    IN  [k \in 1..Len(Range(LEGACY_MOONS)) |-> get_moon_phase(MoonValue(rating, Range(LEGACY_MOONS)[k]))]

(***************************************************************************)
(* Requests                                                                *)
(***************************************************************************)
RECURSIVE FmtNat(_)
FmtNat(n) == IF n < 10 THEN <<DigitChars[n + 1]>>
             ELSE FmtNat(n \div 10) \o <<DigitChars[(n % 10) + 1]>>

FmtInt(n) == IF n < 0 THEN <<"-">> \o FmtNat(-n) ELSE FmtNat(n)

\* the decimal literal, with two fraction digits, of v hundredths
FmtHundredths(v) ==
    LET a == IF v < 0 THEN -v ELSE v IN
    (IF v < 0 THEN <<"-">> ELSE <<>>)
    \o FmtNat(a \div CELL) \o <<".">>
    \o <<DigitChars[((a % CELL) \div 10) + 1], DigitChars[(a % 10) + 1]>>

TopUnits == IF MaxUnits > DEFAULT_MAX THEN MaxUnits ELSE DEFAULT_MAX

RatingValues == (0 - Margin)..(TopUnits * CELL + Margin)

Segments ==
    {FmtHundredths(v) : v \in RatingValues}
    \cup { <<"3", ".", "5">>, <<"5">>, <<"+", "2">>, <<".", "5">>,
           <<"n", "a", "n">>, <<"i", "n", "f">>, <<"-", "i", "n", "f">>,
           <<"a", "b", "c">>, <<"-">>, <<".">>, <<"1", ".", "2", ".", "3">> }

Absent == [present |-> FALSE, text |-> <<>>]
Given(t) == [present |-> TRUE, text |-> t]

MaxArgs == {Absent, Given(<<"x">>), Given(<<"2", ".", "5">>), Given(<<"1", "0">>)}
           \cup {Given(FmtInt(m)) : m \in (0 - NegUnits)..MaxUnits}

SizeArgs == {Absent, Given(<<"1", "0">>), Given(<<"x">>)}

RatingRoutes == {"/<rating>/", "/moon/<rating>/", "/moon-emoji/<rating>/"}

\* "get_moon_rating_svg" is a direct call of the unrouted first moon renderer
\* with the arguments the /moon/<rating>/ handler would pass
Requests ==
    {[route |-> "/", rating |-> <<>>, size |-> Absent, max |-> Absent]}
    \cup [route : RatingRoutes \cup {"get_moon_rating_svg"},
          rating : Segments, size : SizeArgs, max : MaxArgs]

(***************************************************************************)
(* Responses                                                               *)
(***************************************************************************)
NoResponse ==
    [status |-> 0, ctype |-> "", text |-> <<>>, svg |-> EmptySvg, location |-> ""]

InvalidRating ==
    [status |-> 400, ctype |-> "text/html; charset=utf-8",
     text |-> <<"Invalid rating value">>, svg |-> EmptySvg, location |-> ""]

\* an exception escaping a handler
InternalError ==
    [status |-> 500, ctype |-> "text/html; charset=utf-8",
     text |-> <<>>, svg |-> EmptySvg, location |-> ""]

SvgResponse(out) ==
    IF out.raised THEN InternalError
    ELSE [status |-> 200, ctype |-> "image/svg+xml", text |-> <<>>,
          svg |-> out.svg, location |-> ""]

TextResponse(glyphs) ==
    [status |-> 200, ctype |-> "text/plain; charset=utf-8", text |-> glyphs,
     svg |-> EmptySvg, location |-> ""]

TypeOK ==
    /\ request \in Requests
    /\ pc \in {"recv", "done"}
    /\ response.status \in {0, 200, 302, 400, 500}
    /\ phases \in Seq({"new", "crescent", "half", "gibbous", "full"})
    /\ invoked \in {"none", "get_star_rating", "get_moon_rating_svg",
                    "get_moon_rating_svg_v2", "get_moon_rating"}

Init ==
    /\ request \in Requests
    /\ pc = "recv"
    /\ response = NoResponse
    /\ invoked = "none"
    /\ phases = <<>>

redirect_to_github ==
    /\ pc = "recv"
    /\ request.route = "/"
    /\ response' = [status |-> 302, ctype |-> "text/html; charset=utf-8", text |-> <<>>,
                    svg |-> EmptySvg,
                    location |-> "https://github.com/GoulartNogueira/Star-Rating/"]
    /\ invoked' = "none"
    /\ pc' = "done"
    /\ UNCHANGED <<request, phases>>

star_rating ==
    /\ pc = "recv"
    /\ request.route = "/<rating>/"
    /\ LET p == ParseFloat(request.rating) IN
       IF ~p.ok
       THEN /\ response' = InvalidRating
            /\ invoked' = "none"
       ELSE LET size == ArgsGetInt(request.size, DEFAULT_SIZE)
                max_stars == ArgsGetInt(request.max, DEFAULT_MAX)
            IN  /\ response' = SvgResponse(get_star_rating(p.val, size, max_stars))
                /\ invoked' = "get_star_rating"
    /\ pc' = "done"
    /\ UNCHANGED <<request, phases>>

moon_rating_route ==
    /\ pc = "recv"
    /\ request.route = "/moon/<rating>/"
    /\ LET p == ParseFloat(request.rating) IN
       IF ~p.ok
       THEN /\ response' = InvalidRating
            /\ invoked' = "none"
            /\ phases' = <<>>
       ELSE LET size == ArgsGetInt(request.size, DEFAULT_SIZE)
                max_moons == ArgsGetInt(request.max, DEFAULT_MAX)
                out == get_moon_rating_svg_v2(p.val, size, max_moons)
            IN  /\ response' = SvgResponse(out)
                /\ invoked' = "get_moon_rating_svg_v2"
                /\ phases' = out.phases
    /\ pc' = "done"
    /\ UNCHANGED request

moon_rating_emoji ==
    /\ pc = "recv"
    /\ request.route = "/moon-emoji/<rating>/"
    /\ LET p == ParseFloat(request.rating) IN
       IF ~p.ok
       THEN /\ response' = InvalidRating
            /\ invoked' = "none"
       ELSE /\ response' = TextResponse(get_moon_rating(p.val))
            /\ invoked' = "get_moon_rating"
    /\ pc' = "done"
    /\ UNCHANGED <<request, phases>>

\* the first moon renderer applied directly (no HTTP response is built)
call_get_moon_rating_svg ==
    /\ pc = "recv"
    /\ request.route = "get_moon_rating_svg"
    /\ ParseFloat(request.rating).ok
    /\ LET size == ArgsGetInt(request.size, DEFAULT_SIZE)
           max_moons == ArgsGetInt(request.max, DEFAULT_MAX)
           out == get_moon_rating_svg(ParseFloat(request.rating).val, size, max_moons)
       IN  /\ response' = [NoResponse EXCEPT !.svg = out.svg]
           /\ phases' = out.phases
    /\ invoked' = "get_moon_rating_svg"
    /\ pc' = "done"
    /\ UNCHANGED request

Next ==
    \/ redirect_to_github
    \/ star_rating
    \/ moon_rating_route
    \/ moon_rating_emoji
    \/ call_get_moon_rating_svg

Spec == Init /\ [][Next]_vars

(***************************************************************************)
(* Vocabulary of the properties.  These definitions restate the intended   *)
(* arithmetic on the real line (in hundredths) and read rendered documents;*)
(* none of them is taken from the renderers.                               *)
(***************************************************************************)
Done == pc = "done"

Parsed == ParseFloat(request.rating).ok

\* the rating of the request as a float, its unit count, its size
R == ParseFloat(request.rating).val
M == ArgsGetInt(request.max, DEFAULT_MAX)
SizeOf == ArgsGetInt(request.size, DEFAULT_SIZE)

IsReal == Parsed /\ R.cls # "nan"

Seg(v) == FmtHundredths(v)

\* clamp(x, lo, hi) on the extended real line, in hundredths
Clamp(x, lo, hi) ==
    IF x.cls = "inf" THEN hi
    ELSE IF x.cls = "ninf" THEN lo
    ELSE IF x.v < lo THEN lo
    ELSE IF x.v > hi THEN hi
    ELSE x.v

\* clamp(clamp(R, 0, m) - i, 0, 1), in hundredths
Fill(m, i) == Clamp(Fin(Clamp(R, 0, m * CELL) - i * CELL), 0, CELL)

Buckets == {"new", "crescent", "half", "gibbous", "full"}

\* the thresholds: <= 0.1 new, <= 0.3 crescent, <= 0.6 half, <= 0.9 gibbous, else full
BucketOf(f) ==
    CASE f <= 10 -> "new"
      [] f > 10 /\ f <= 30 -> "crescent"
      [] f > 30 /\ f <= 60 -> "half"
      [] f > 60 /\ f <= 90 -> "gibbous"
      [] f > 90 -> "full"

PercentOf(b) ==
    CASE b = "new" -> 0
      [] b = "crescent" -> 25
      [] b = "half" -> 50
      [] b = "gibbous" -> 75
      [] b = "full" -> 100

GlyphOf(b) ==
    CASE b = "new" -> GLYPH_NEW
      [] b = "crescent" -> GLYPH_CRESCENT
      [] b = "half" -> GLYPH_HALF
      [] b = "gibbous" -> GLYPH_GIBBOUS
      [] b = "full" -> GLYPH_FULL

Abs(n) == IF n < 0 THEN -n ELSE n

RECURSIVE SumTo(_, _)
SumTo(f, n) == IF n <= 0 THEN 0 ELSE f[n] + SumTo(f, n - 1)

Els == response.svg.elems

Idx(els, P(_)) == {k \in 1..Len(els) : P(els[k])}

IsPath(e) == e.tag = "path"
IsCircle(e) == e.tag = "circle"
IsClipPath(e) == e.tag = "clipPath"
IsGold(e) == e.fill \in {"gold", "#F4D03F"}
IsGray(e) == e.fill = "#ddd"

\* width of the clip rectangle an element refers to
ClipRectOf(els, e) == CHOOSE c \in {els[k] : k \in Idx(els, IsClipPath)} : c.id = e.clip

HasClipRect(els, e) == \E k \in Idx(els, IsClipPath) : els[k].id = e.clip

\* star documents
FullStar(e) == IsPath(e) /\ IsGold(e) /\ e.clip = NoClip
PartialStar(e) == IsPath(e) /\ IsGold(e) /\ e.clip # NoClip
BaseStar(e) == IsPath(e) /\ e.clip = NoClip

StarRequest == Done /\ request.route = "/<rating>/" /\ IsReal /\ M >= 0

\* moon documents: the gold circle of unit i, and the clip width drawn for unit i
GoldOf(els, i) == {k \in Idx(els, IsCircle) : IsGold(els[k]) /\ els[k].cx = CELL * i + 50}
GrayOf(els, i) == {k \in Idx(els, IsCircle) : IsGray(els[k]) /\ els[k].cx = CELL * i + 50}

ClipPercent(els, i) ==
    IF GoldOf(els, i) = {} THEN 0
    ELSE ClipRectOf(els, els[CHOOSE k \in GoldOf(els, i) : TRUE]).w

MoonRequest == Done /\ request.route = "/moon/<rating>/" /\ IsReal /\ M >= 0

(***************************************************************************)
(* C1: for every real rating R and unit count M >= 0 the star document's   *)
(* total fill is clamp(R, 0, M) exactly: the number of solid gold stars    *)
(* times 100 plus the width of the partial star's clip rectangle equals    *)
(* clamp(R, 0, M) in hundredths; the number of gold stars is the floor of  *)
(* the clamped rating; a partial star is emitted iff the clamped rating    *)
(* has a non-zero fractional part.                                         *)
(***************************************************************************)
C1_StarFillExact ==
    StarRequest =>
        /\ response.status = 200
        /\ LET golds == Cardinality(Idx(Els, FullStar))
               parts == Idx(Els, PartialStar)
               width == IF parts = {} THEN 0
                        ELSE ClipRectOf(Els, Els[CHOOSE k \in parts : TRUE]).w
               c == Clamp(R, 0, M * CELL)
           IN  /\ Cardinality(parts) <= 1
               /\ \A k \in parts : HasClipRect(Els, Els[k])
               /\ golds * CELL + width = c
               /\ golds = c \div CELL
               /\ (parts # {}) <=> (c % CELL # 0)

\* rating 3.5 of 5: three gold stars and a partial star clipped at 50
C1_Witness ==
    /\ StarRequest
    /\ request.rating = <<"3", ".", "5">>
    /\ request.max = Absent
    /\ Cardinality(Idx(Els, FullStar)) = 3
    /\ \E k \in Idx(Els, PartialStar) : ClipRectOf(Els, Els[k]).w = 50

(***************************************************************************)
(* C2: for every real rating R and unit count M >= 0 the star document has *)
(* exactly M cells tiling a viewBox of width 100*M: the cells sit at the   *)
(* offsets 0, 100, ..., 100*(M-1), one cell per offset, in the order full  *)
(* stars, then the partial star (a gray star with the clipped gold star    *)
(* directly on top of it), then empty stars.                               *)
(***************************************************************************)
StarBase == SelectSeq(Els, BaseStar)

\* 0 for a full cell, 1 for the partial cell, 2 for an empty cell
StarKind(k) ==
    IF IsGold(StarBase[k]) THEN 0
    ELSE IF \E j \in Idx(Els, PartialStar) : Els[j].tx = StarBase[k].tx THEN 1
    ELSE 2

C2_StarCellsTile ==
    StarRequest =>
        /\ response.status = 200
        /\ response.svg.viewBoxW = CELL * M
        /\ Len(StarBase) = M
        /\ \A k \in 1..Len(StarBase) : StarBase[k].tx = CELL * (k - 1)
        /\ \A j \in Idx(Els, PartialStar) :
              /\ j > 1
              /\ BaseStar(Els[j - 1]) /\ IsGray(Els[j - 1])
              /\ Els[j - 1].tx = Els[j].tx
        /\ Cardinality(Idx(Els, PartialStar)) <= 1
        /\ \A j, k \in 1..Len(StarBase) : j < k => StarKind(j) <= StarKind(k)
        /\ Cardinality({k \in 1..Len(StarBase) : StarKind(k) = 1})
             = Cardinality(Idx(Els, PartialStar))

\* /3.5/?size=10&max=10: ten cells, canvas 100 by 10, kinds 3 full, 1 partial, 6 empty
C2_Witness ==
    /\ StarRequest
    /\ request.rating = <<"3", ".", "5">>
    /\ request.max = Given(<<"1", "0">>)
    /\ request.size = Given(<<"1", "0">>)
    /\ response.svg.width = 100
    /\ response.svg.height = 10
    /\ Len(StarBase) = 10
    /\ StarKind(3) = 0 /\ StarKind(4) = 1 /\ StarKind(5) = 2

MoonPercents == [k \in 1..M |-> ClipPercent(Els, k - 1)]

C4_Original ==
    MoonRequest =>
        /\ \A i \in 0..(M - 1) : Abs(ClipPercent(Els, i) - Fill(M, i)) <= 10
        /\ Abs(SumTo(MoonPercents, M) - Clamp(R, 0, M * CELL)) <= 10 * M

(***************************************************************************)
(* C4 amended: every unit's rendered fill is within 0.2 of its fill value, *)
(* and the sum over the units is within 0.2 * M of clamp(R, 0, M).         *)
(***************************************************************************)
C4_MoonBucketRounding ==
    MoonRequest =>
        /\ response.status = 200
        /\ \A i \in 0..(M - 1) : Abs(ClipPercent(Els, i) - Fill(M, i)) <= 20
        /\ Abs(SumTo(MoonPercents, M) - Clamp(R, 0, M * CELL)) <= 20 * M

\* rating 1.31 of 2: unit 1 has fill value 0.31 and is drawn half lit
C4_Witness ==
    /\ MoonRequest
    /\ request.rating = Seg(131)
    /\ request.max = Given(<<"2">>)
    /\ ClipPercent(Els, 0) = 100
    /\ ClipPercent(Els, 1) = 50

EmojiRequest == Done /\ request.route = "/moon-emoji/<rating>/" /\ IsReal

RendererOf(route) ==
    CASE route = "/<rating>/" -> "get_star_rating"
      [] route = "/moon/<rating>/" -> "get_moon_rating_svg_v2"
      [] route = "/moon-emoji/<rating>/" -> "get_moon_rating"

C7_OnlyInvalidRating ==
    (Done /\ request.route \in RatingRoutes) =>
        /\ (response.status = 400 /\ response.text = <<"Invalid rating value">>) <=> ~Parsed
        /\ response.status \in {200, 400}
        /\ ~Parsed => (invoked = "none" /\ response.svg = EmptySvg /\ phases = <<>>)
        /\ Parsed =>
              /\ response.status = 200
              /\ invoked = RendererOf(request.route)
              /\ response.ctype = (IF request.route = "/moon-emoji/<rating>/"
                                   THEN "text/plain; charset=utf-8" ELSE "image/svg+xml")

\* /abc/ with a max value that is not an integer either
C7_Witness ==
    /\ Done
    /\ request.route = "/<rating>/"
    /\ request.rating = <<"a", "b", "c">>
    /\ request.max = Given(<<"x">>)
    /\ response.status = 400
    /\ response.text = <<"Invalid rating value">>
    /\ invoked = "none"

(***************************************************************************)
(* C8: for every rating and every unit count M <= 0 the star renderer and  *)
(* the served moon renderer complete without error and produce a document  *)
(* with no unit shape at all (no path, no circle, no clip rectangle); for  *)
(* M = 0 the canvas width is 0.                                            *)
(***************************************************************************)
C8_DegenerateCount ==
    (Done /\ request.route \in {"/<rating>/", "/moon/<rating>/"} /\ Parsed /\ M <= 0) =>
        /\ response.status = 200
        /\ Len(Els) = 0
        /\ M = 0 => (response.svg.width = 0 /\ response.svg.viewBoxW = 0)

\* /2.50/?max=-1
C8_Witness ==
    /\ Done
    /\ request.route = "/<rating>/"
    /\ request.rating = Seg(250)
    /\ M = -1
    /\ response.status = 200
    /\ Len(Els) = 0

(***************************************************************************)
(* C9: the two moon renderers are visually equivalent: for every real      *)
(* rating R, unit count M >= 0 and unit i in [0, M) the visible horizontal *)
(* extent, in canvas coordinates, of unit i's gold circle is the same in   *)
(* the document of get_moon_rating_svg and in the document of              *)
(* get_moon_rating_svg_v2, and it is the part of the circle that lies in   *)
(* the bucket's percentage of cell i.                                      *)
(*                                                                         *)
(* A clip rectangle lives in the user space of the element that refers to  *)
(* it, i.e. inside that element's transform (a transform-origin does not   *)
(* change a pure translation).                                             *)
(***************************************************************************)
Max2(a, b) == IF a > b THEN a ELSE b
Min2(a, b) == IF a < b THEN a ELSE b

NoExtent == <<0, 0>>

Interval(lo, hi) == IF hi <= lo THEN NoExtent ELSE <<lo, hi>>

\* visible horizontal extent of the clipped circle e of the document els
VisibleExtent(els, e) ==
    LET c == ClipRectOf(els, e)
        lo == Max2(e.cx - e.r, c.x)
        hi == Min2(e.cx + e.r, c.x + c.w)
    IN  IF hi <= lo THEN NoExtent ELSE <<lo + e.tx, hi + e.tx>>

GoldExtent(els, i) ==
    IF GoldOf(els, i) = {} THEN NoExtent
    ELSE VisibleExtent(els, els[CHOOSE k \in GoldOf(els, i) : TRUE])

\* the part of unit i's circle inside the first pct hundredths of cell i
BucketExtent(i, pct) ==
    Interval(CELL * i + 50 - MOON_RADIUS, Min2(CELL * i + 50 + MOON_RADIUS, CELL * i + pct))

V2Els == get_moon_rating_svg_v2(R, SizeOf, M).svg.elems

C9_MoonRenderersEquivalent ==
    (Done /\ invoked = "get_moon_rating_svg" /\ IsReal /\ M >= 0) =>
        \A i \in 0..(M - 1) :
            /\ GoldExtent(Els, i) = GoldExtent(V2Els, i)
            /\ GoldExtent(Els, i) = BucketExtent(i, PercentOf(BucketOf(Fill(M, i))))

(***************************************************************************)
(* C10: for every real rating and unit count M >= 0 the per-unit fill is   *)
(* non-increasing in the unit index and at most one unit is partial: in    *)
(* the served moon document and in the legacy glyphs at most one unit is   *)
(* neither new nor full, every unit before it is full and every unit after *)
(* it is new; the star document has at most one partial star, preceded     *)
(* only by full stars and followed only by empty stars.                    *)
(***************************************************************************)
\* units is a sequence of fill levels, 0 for new/empty and 100 for full
Staircase(units) ==
    /\ \A j, k \in 1..Len(units) : j < k => units[j] >= units[k]
    /\ Cardinality({k \in 1..Len(units) : units[k] \notin {0, 100}}) <= 1
    /\ \A k \in 1..Len(units) :
          units[k] \notin {0, 100} =>
              /\ \A j \in 1..(k - 1) : units[j] = 100
              /\ \A j \in (k + 1)..Len(units) : units[j] = 0

GlyphLevel(g) ==
    IF g = GLYPH_NEW THEN 0
    ELSE IF g = GLYPH_CRESCENT THEN 25
    ELSE IF g = GLYPH_HALF THEN 50
    ELSE IF g = GLYPH_GIBBOUS THEN 75
    ELSE 100

\* level of the k-th star cell: 100 full, 0 empty, the clip width if partial
StarLevel(k) ==
    IF StarKind(k) = 0 THEN 100
    ELSE IF StarKind(k) = 2 THEN 0
    ELSE ClipRectOf(Els, Els[CHOOSE j \in Idx(Els, PartialStar) :
                                Els[j].tx = StarBase[k].tx]).w

C10_AtMostOnePartial ==
    /\ MoonRequest =>
          /\ Len(MoonPercents) = M
          /\ Staircase(MoonPercents)
    /\ EmojiRequest =>
          /\ Len(response.text) = 5
          /\ Staircase([k \in 1..Len(response.text) |-> GlyphLevel(response.text[k])])
    /\ StarRequest =>
          /\ Cardinality(Idx(Els, PartialStar)) <= 1
          /\ \A j \in Idx(Els, PartialStar) : \E k \in 1..Len(StarBase) : StarKind(k) = 1
          /\ Staircase([k \in 1..Len(StarBase) |-> StarLevel(k)])

\* /moon/1.50/?max=3: full, half, new
C10_Witness ==
    /\ MoonRequest
    /\ request.rating = Seg(150)
    /\ request.max = Given(<<"3">>)
    /\ MoonPercents = <<100, 50, 0>>

=============================================================================
